---- MODULE Spec2Model ----
(***************************************************************************)
(* EmbeddingClient of zilliz_mcp_server: dual-backend dispatch (remote     *)
(* OpenRouter call, local FastEmbed model), automatic remote -> local      *)
(* fallback, explicit method switching, and the settings loader that       *)
(* supplies the client's configuration.                                    *)
(*                                                                         *)
(* Messages (str(e) of an exception) are sequences of string tokens, so    *)
(* that an f-string is the concatenation of its literal parts and of the   *)
(* messages it interpolates.                                               *)
(***************************************************************************)
EXTENDS Integers, Sequences, FiniteSets, TLC

(* ------------------------------ bounds --------------------------------- *)

\* number of callers that hold the client
NumThreads == 2
\* cap on the number of TextEmbedding constructions that are counted
MaxInits == 3
\* largest number of texts in one batch
MaxBatch == 2

Threads == 1..NumThreads

(* ------------------------- settings.py --------------------------------- *)

\* an environment variable that is not set
Unset == "<unset>"

\* os.getenv(name, default)
Getenv(v, default) == IF v = Unset THEN default ELSE v

\* str.lower() on the strings the environment is drawn from
Lower(s) ==
    CASE s = "REMOTE" -> "remote"
      [] s = "Local"  -> "local"
      [] s = "TRUE"   -> "true"
      [] s = "False"  -> "false"
      [] OTHER        -> s

\* str.strip() on the strings the environment is drawn from
Strip(s) == IF s = " " THEN "" ELSE s

\* the strings int() accepts, and what it makes of them
IntStrings == {"0", "-1", "768", "3072", "8000", "70000"}

ParseInt(s) ==
    CASE s = "0"     -> 0
      [] s = "-1"    -> -1
      [] s = "768"   -> 768
      [] s = "3072"  -> 3072
      [] s = "8000"  -> 8000
      [] s = "70000" -> 70000

\* re.match(r'^https?://', uri)
MatchesHttp(uri) == uri \in {"https://api.cloud.zilliz.com", "http://localhost"}

\* the process environment the loader reads
Envs ==
    [ ZILLIZ_CLOUD_URI           : {Unset, "ftp://zilliz"},
      ZILLIZ_CLOUD_TOKEN         : {Unset, " ", "tok"},
      MCP_SERVER_PORT            : {Unset, "70000", "abc"},
      ENABLE_AUTO_EMBEDDING      : {Unset, "TRUE", "1"},
      EMBEDDING_METHOD           : {Unset, "REMOTE", "Local", "local", "bogus"},
      AUTO_FALLBACK_TO_LOCAL     : {Unset, "False", "yes"},
      OPENROUTER_API_KEY         : {Unset, "key"},
      REMOTE_EMBEDDING_DIMENSION : {Unset, "768", "0", "abc"},
      LOCAL_EMBEDDING_DIMENSION  : {Unset, "3072", "-1", "abc"} ]

\* the int() conversions of ZillizConfig.__init__ all succeed
IntsParse(env) ==
    /\ Getenv(env.MCP_SERVER_PORT, "8000") \in IntStrings
    /\ Getenv(env.REMOTE_EMBEDDING_DIMENSION, "3072") \in IntStrings
    /\ Getenv(env.LOCAL_EMBEDDING_DIMENSION, "768") \in IntStrings

\* ZillizConfig.__init__: the attributes read from the environment
ZillizConfig(env) ==
    [ cloud_uri                  |-> Getenv(env.ZILLIZ_CLOUD_URI, "https://api.cloud.zilliz.com"),
      token                      |-> Getenv(env.ZILLIZ_CLOUD_TOKEN, ""),
      mcp_server_port            |-> ParseInt(Getenv(env.MCP_SERVER_PORT, "8000")),
      enable_auto_embedding      |-> Lower(Getenv(env.ENABLE_AUTO_EMBEDDING, "false")) = "true",
      embedding_method           |-> Lower(Getenv(env.EMBEDDING_METHOD, "remote")),
      auto_fallback_to_local     |-> Lower(Getenv(env.AUTO_FALLBACK_TO_LOCAL, "true")) = "true",
      openrouter_api_key         |-> Getenv(env.OPENROUTER_API_KEY, ""),
      remote_embedding_dimension |-> ParseInt(Getenv(env.REMOTE_EMBEDDING_DIMENSION, "3072")),
      local_embedding_dimension  |-> ParseInt(Getenv(env.LOCAL_EMBEDDING_DIMENSION, "768")) ]

\* the embedding part of _validate_config, entered when auto-embedding is on
EmbeddingConfigValid(c) ==
    /\ c.embedding_method \in {"remote", "local"}
    /\ c.embedding_method = "remote" =>
          /\ (Strip(c.openrouter_api_key) = "" => c.auto_fallback_to_local)
          /\ c.remote_embedding_dimension > 0
    /\ c.local_embedding_dimension > 0

\* ZillizConfig._validate_config raises nothing
ValidateConfig(c) ==
    /\ Strip(c.token) # ""
    /\ (c.cloud_uri # "" => MatchesHttp(c.cloud_uri))
    /\ 1 <= c.mcp_server_port /\ c.mcp_server_port <= 65535
    /\ c.enable_auto_embedding => EmbeddingConfigValid(c)

\* the configurations the module-level `config = ZillizConfig()` can hold
AcceptedConfigs ==
    { ZillizConfig(env) : env \in { e \in Envs : IntsParse(e) /\ ValidateConfig(ZillizConfig(e)) } }

(* ------------------------- embedding_client.py ------------------------- *)

VARIABLES
    config,                 \* settings.config, loaded once at import
    current_method,         \* EmbeddingClient.current_method
    auto_fallback,          \* EmbeddingClient.auto_fallback
    remote_dimension,       \* EmbeddingClient.remote_dimension
    local_dimension,        \* EmbeddingClient.local_dimension
    local_model_instance,   \* EmbeddingClient._local_model_instance (None or a handle)
    init_count,             \* number of TextEmbedding objects constructed so far
    pc,                     \* per caller: where it is in the operation it runs
    op,                     \* per caller: the operation it runs
    arg,                    \* per caller: the method passed to switch_method
    ntexts,                 \* per caller: the number of texts passed in
    start_method,           \* per caller: current_method when the call was made
    e,                      \* per caller: str(e) of the exception caught at 158 / 197
    attempts,               \* per caller: the backends this call has attempted, in order
    outcomes,               \* per caller: how each finished attempt ended
    loaded,                 \* per caller: this call constructed the local model
    ret,                    \* per caller: what the finished call returned or raised
    load_failed,            \* a construction of TextEmbedding has raised before
    embedding_client,       \* the module global _embedding_client (None or an instance)
    clients_constructed,    \* number of EmbeddingClient objects constructed so far
    apc,                    \* per caller: where it is in get_embedding_client
    got                     \* per caller: the instance get_embedding_client returned

clientVars == <<current_method, auto_fallback, remote_dimension, local_dimension,
                local_model_instance, init_count>>
callVars   == <<pc, op, arg, ntexts, start_method, e, attempts, outcomes, loaded, ret>>
accessorVars == <<embedding_client, clients_constructed, apc, got>>
vars       == <<config, clientVars, callVars, load_failed, accessorVars>>

\* Python's None for _local_model_instance; handles are 1, 2, ...
None == 0

GenerateOps == {"generate_embedding", "generate_embeddings_batch"}

\* lengths of the vectors a backend can hand back
VecLens == {768, 3072}

\* str(e) of what requests.post / raise_for_status / the data[...] lookups raise
RemoteCauses == {<<"HTTPError: 401 Unauthorized">>, <<"KeyError: 'data'">>}
\* str(e) of what the fastembed import or TextEmbedding(...) raises
LoadCauses == {<<"No module named 'fastembed'">>}
\* str(e) of what model.embed(...) raises
EmbedCauses == {<<"ONNXRuntimeError">>}

\* line 51: the message of the exception _get_local_model raises
InitError(cause) == <<"Local embedding model initialization failed: ">> \o cause

\* line 174
SingleError(cause) == <<"Embedding generation failed: ">> \o cause
\* line 213
BatchError(cause) == <<"Batch embedding generation failed: ">> \o cause
\* CombinedError that interpolates the fallback error twice
CombinedErrorLocalTwice(remote, local) ==
    <<"Both remote and local embedding failed. Remote: ">> \o local \o <<", Local: ">> \o local

\* lines 172 and 211
CombinedError(remote, local) ==
    <<"Both remote and local embedding failed. Remote: ">> \o remote \o <<", Local: ">> \o local

\* line 232
SwitchMessage(old, new) ==
    <<"Embedding method switched from '", old, "' to '", new, "'">>

\* what a call hands back to its caller
NoRet == [kind |-> "none", backend |-> "", len |-> 0, count |-> 0,
          type |-> "", msg |-> <<>>, cause |-> <<>>, str |-> "", num |-> 0]
Vectors(backend, len, count) ==
    [NoRet EXCEPT !.kind = "vectors", !.backend = backend, !.len = len, !.count = count]
Raised(type, msg, cause) ==
    [NoRet EXCEPT !.kind = "raised", !.type = type, !.msg = msg, !.cause = cause]
Message(msg) == [NoRet EXCEPT !.kind = "message", !.msg = msg]
Method(m) == [NoRet EXCEPT !.kind = "method", !.str = m]
Dimension(n) == [NoRet EXCEPT !.kind = "dimension", !.num = n]

\* how an attempt ended
Succeeded == [ok |-> TRUE, cause |-> <<>>]
Failed(cause) == [ok |-> FALSE, cause |-> cause]

\* UsesRemote with the test inverted
UsesRemoteInverted(method) == method # "remote"

\* lines 152 and 191: the primary attempt goes to the remote backend
UsesRemote(method) == method = "remote"

\* ShouldFallback without the test of the flag
ShouldFallbackIgnoringFlag(fallback, method) == method = "remote"

\* ShouldFallback without the test of the method
ShouldFallbackAnyMethod(fallback, method) == fallback

\* lines 162 and 201: the failed primary attempt is followed by a local one
ShouldFallback(fallback, method) == fallback /\ method = "remote"

\* MethodAfterFallback when the assignment is forgotten
MethodAfterFallbackStale == "remote"

\* lines 168 and 207: current_method after a successful fallback
MethodAfterFallback == "local"

\* NeedsLoad without the test for None
NeedsLoadAlways(instance) == TRUE

\* a failed construction that leaves a half-built handle in the slot
InstanceAfterLoadFailureCached(instance) == -1

\* lines 44-51: the constructor raised before line 44 could store anything
InstanceAfterLoadFailure(instance) == instance

\* UsesRemoteBatch when the batch always starts with the remote backend
UsesRemoteBatchAlways(method) == TRUE

\* line 191: the primary batch attempt goes to the remote backend
UsesRemoteBatch(method) == method = "remote"

\* ShouldFallbackBatch without the test of the flag
ShouldFallbackBatchIgnoringFlag(fallback, method) == method = "remote"

\* line 201: the failed primary batch attempt is followed by a local one
ShouldFallbackBatch(fallback, method) == fallback /\ method = "remote"

\* line 207: current_method after a successful batch fallback
MethodAfterFallbackBatch == "local"

\* line 36: the model has to be constructed
NeedsLoad(instance) == instance = None

\* ValidMethod that ignores case, as the settings loader does
ValidMethodIgnoringCase(method) == method \in {"remote", "local", "Remote"}

\* line 225: the method switch_method accepts
ValidMethod(method) == method \in {"remote", "local"}

\* SwitchedMethod that stores the wrong variable
SwitchedMethodKeepsOld(old, method) == old

\* line 229: the value switch_method stores
SwitchedMethod(old, method) == method

\* GetDimensionValue with the two branches swapped
GetDimensionValueSwapped(method, remote_dim, local_dim) ==
    IF method = "remote" THEN local_dim ELSE remote_dim

\* get_dimension
GetDimensionValue(method, remote_dim, local_dim) ==
    IF method = "remote" THEN remote_dim ELSE local_dim

\* line 30 of EmbeddingClient.__init__ with the model constructed eagerly
InitialModelInstanceEager == None + 1

\* line 30 of EmbeddingClient.__init__
InitialModelInstance == None

\* EmbeddingClient.__init__ on the loaded configuration, no call made yet
InitEmbeddingClient ==
    /\ config \in AcceptedConfigs
    /\ current_method = config.embedding_method
    /\ auto_fallback = config.auto_fallback_to_local
    /\ remote_dimension = config.remote_embedding_dimension
    /\ local_dimension = config.local_embedding_dimension
    /\ local_model_instance = InitialModelInstance
    /\ init_count = 0
    /\ load_failed = FALSE
    /\ pc = [t \in Threads |-> "idle"]
    /\ op = [t \in Threads |-> ""]
    /\ arg = [t \in Threads |-> ""]
    /\ ntexts = [t \in Threads |-> 0]
    /\ start_method = [t \in Threads |-> ""]
    /\ e = [t \in Threads |-> <<>>]
    /\ attempts = [t \in Threads |-> <<>>]
    /\ outcomes = [t \in Threads |-> <<>>]
    /\ loaded = [t \in Threads |-> FALSE]
    /\ ret = [t \in Threads |-> NoRet]

\* the process-wide client, after get_embedding_client constructed it
Init ==
    /\ InitEmbeddingClient
    /\ embedding_client = 1
    /\ clients_constructed = 1
    /\ apc = [t \in Threads |-> "idle"]
    /\ got = [t \in Threads |-> None]

\* a caller enters generate_embedding(text)
CallGenerateEmbedding(t) ==
    /\ pc[t] = "idle"
    /\ pc' = [pc EXCEPT ![t] = "dispatch"]
    /\ op' = [op EXCEPT ![t] = "generate_embedding"]
    /\ ntexts' = [ntexts EXCEPT ![t] = 1]
    /\ start_method' = [start_method EXCEPT ![t] = current_method]
    /\ UNCHANGED <<accessorVars, load_failed, config, clientVars, arg, e, attempts, outcomes, loaded, ret>>

\* a caller enters generate_embeddings_batch(texts)
CallGenerateEmbeddingsBatch(t) ==
    /\ pc[t] = "idle"
    /\ \E n \in 1..MaxBatch : ntexts' = [ntexts EXCEPT ![t] = n]
    /\ pc' = [pc EXCEPT ![t] = "dispatch"]
    /\ op' = [op EXCEPT ![t] = "generate_embeddings_batch"]
    /\ start_method' = [start_method EXCEPT ![t] = current_method]
    /\ UNCHANGED <<accessorVars, load_failed, config, clientVars, arg, e, attempts, outcomes, loaded, ret>>

\* lines 151-157 / 190-196: pick the backend that matches current_method
Dispatch(t) ==
    /\ pc[t] = "dispatch"
    /\ IF (IF op[t] = "generate_embedding" THEN UsesRemote(current_method)
                                            ELSE UsesRemoteBatch(current_method))
         THEN /\ pc' = [pc EXCEPT ![t] = "remote_call"]
              /\ attempts' = [attempts EXCEPT ![t] = Append(@, "remote")]
         ELSE /\ pc' = [pc EXCEPT ![t] = "get_local_model"]
              /\ attempts' = [attempts EXCEPT ![t] = Append(@, "local")]
    /\ UNCHANGED <<accessorVars, load_failed, config, clientVars, op, arg, ntexts, start_method, e, outcomes, loaded, ret>>

\* _generate_remote_embedding / _generate_remote_embeddings_batch return
RemoteCallOk(t) ==
    /\ pc[t] = "remote_call"
    /\ \E len \in VecLens, k \in 1..MaxBatch :
          /\ op[t] = "generate_embedding" => k = 1
          /\ ret' = [ret EXCEPT ![t] = Vectors("remote", len, k)]
    /\ outcomes' = [outcomes EXCEPT ![t] = Append(@, Succeeded)]
    /\ pc' = [pc EXCEPT ![t] = "done"]
    /\ UNCHANGED <<accessorVars, load_failed, config, clientVars, op, arg, ntexts, start_method, e, attempts, loaded>>

\* _generate_remote_embedding / _generate_remote_embeddings_batch re-raise,
\* caught at line 158 / 197
RemoteCallFail(t) ==
    /\ pc[t] = "remote_call"
    /\ \E cause \in RemoteCauses :
          /\ e' = [e EXCEPT ![t] = cause]
          /\ outcomes' = [outcomes EXCEPT ![t] = Append(@, Failed(cause))]
    /\ pc' = [pc EXCEPT ![t] = "except"]
    /\ UNCHANGED <<accessorVars, load_failed, config, clientVars, op, arg, ntexts, start_method, attempts, loaded, ret>>

\* a local attempt of caller t raised `cause`: the primary attempt's exception is
\* caught at line 158 / 197, the fallback attempt's at line 170 / 209, which
\* raises the combined error
LocalAttemptFailed(t, cause) ==
    /\ outcomes' = [outcomes EXCEPT ![t] = Append(@, Failed(cause))]
    /\ IF Len(attempts[t]) = 1
         THEN /\ e' = [e EXCEPT ![t] = cause]
              /\ pc' = [pc EXCEPT ![t] = "except"]
              /\ ret' = ret
         ELSE /\ ret' = [ret EXCEPT ![t] =
                            Raised("Exception", CombinedError(e[t], cause), cause)]
              /\ pc' = [pc EXCEPT ![t] = "done"]
              /\ e' = e

\* line 36 of _get_local_model
GetLocalModel(t) ==
    /\ pc[t] = "get_local_model"
    /\ pc' = [pc EXCEPT ![t] =
                 IF NeedsLoad(local_model_instance) THEN "load_model" ELSE "embed"]
    /\ UNCHANGED <<accessorVars, load_failed, config, clientVars, op, arg, ntexts, start_method, e, attempts,
                   outcomes, loaded, ret>>

\* lines 38-48: TextEmbedding(...) is constructed and stored
LoadModelOk(t) ==
    /\ pc[t] = "load_model"
    /\ init_count < MaxInits
    /\ init_count' = init_count + 1
    /\ local_model_instance' = init_count + 1
    /\ loaded' = [loaded EXCEPT ![t] = TRUE]
    /\ pc' = [pc EXCEPT ![t] = "embed"]
    /\ UNCHANGED <<accessorVars, load_failed, config, current_method, auto_fallback, remote_dimension,
                   local_dimension, op, arg, ntexts, start_method, e, attempts,
                   outcomes, ret>>

\* lines 49-51: the import or the constructor raised
LoadModelFail(t) ==
    /\ pc[t] = "load_model"
    /\ \E cause \in LoadCauses : LocalAttemptFailed(t, InitError(cause))
    /\ local_model_instance' = InstanceAfterLoadFailure(local_model_instance)
    /\ load_failed' = TRUE
    /\ UNCHANGED <<accessorVars, config, current_method, auto_fallback, remote_dimension,
                   local_dimension, init_count, op, arg, ntexts, start_method,
                   attempts, loaded>>

\* lines 113-117 / 127-131: the model embedded the texts; in the fallback
\* branch lines 166-169 / 205-208 follow
EmbedOk(t) ==
    /\ pc[t] = "embed"
    /\ \E len \in VecLens :
          ret' = [ret EXCEPT ![t] = Vectors("local", len, ntexts[t])]
    /\ outcomes' = [outcomes EXCEPT ![t] = Append(@, Succeeded)]
    /\ current_method' =
          IF Len(attempts[t]) = 1 THEN current_method
          ELSE IF op[t] = "generate_embedding" THEN MethodAfterFallback
          ELSE MethodAfterFallbackBatch
    /\ pc' = [pc EXCEPT ![t] = "done"]
    /\ UNCHANGED <<accessorVars, load_failed, config, auto_fallback, remote_dimension, local_dimension,
                   local_model_instance, init_count, op, arg, ntexts, start_method,
                   e, attempts, loaded>>

\* lines 119-121 / 133-135: model.embed raised
EmbedFail(t) ==
    /\ pc[t] = "embed"
    /\ \E cause \in EmbedCauses : LocalAttemptFailed(t, cause)
    /\ UNCHANGED <<accessorVars, load_failed, config, clientVars, op, arg, ntexts, start_method, attempts, loaded>>

\* lines 162 / 201: the test made on the failed primary attempt of caller t
FallsBack(t) ==
    IF op[t] = "generate_embedding" THEN ShouldFallback(auto_fallback, current_method)
                                    ELSE ShouldFallbackBatch(auto_fallback, current_method)

\* lines 162-165 / 201-204: the primary attempt failed and a local attempt follows
Fallback(t) ==
    /\ pc[t] = "except"
    /\ FallsBack(t)
    /\ attempts' = [attempts EXCEPT ![t] = Append(@, "local")]
    /\ pc' = [pc EXCEPT ![t] = "get_local_model"]
    /\ UNCHANGED <<accessorVars, load_failed, config, clientVars, op, arg, ntexts, start_method, e, outcomes,
                   loaded, ret>>

\* lines 173-174 / 212-213: the primary attempt failed and the call gives up
RaisePrimary(t) ==
    /\ pc[t] = "except"
    /\ ~FallsBack(t)
    /\ ret' = [ret EXCEPT ![t] =
                  Raised("Exception",
                         IF op[t] = "generate_embedding" THEN SingleError(e[t])
                                                         ELSE BatchError(e[t]),
                         e[t])]
    /\ pc' = [pc EXCEPT ![t] = "done"]
    /\ UNCHANGED <<accessorVars, load_failed, config, clientVars, op, arg, ntexts, start_method, e, attempts,
                   outcomes, loaded>>

\* the strings callers pass to switch_method
MethodArgs == {"remote", "local", "Remote", "bogus"}

\* switch_method(method)
SwitchMethod(t) ==
    /\ pc[t] = "idle"
    /\ \E method \in MethodArgs :
          /\ arg' = [arg EXCEPT ![t] = method]
          /\ IF ValidMethod(method)
               THEN /\ current_method' = SwitchedMethod(current_method, method)
                    /\ ret' = [ret EXCEPT ![t] =
                                  Message(SwitchMessage(current_method, method))]
               ELSE /\ current_method' = current_method
                    /\ ret' = [ret EXCEPT ![t] =
                                  Raised("ValueError",
                                         <<"Method must be 'remote' or 'local'">>, <<>>)]
    /\ op' = [op EXCEPT ![t] = "switch_method"]
    /\ start_method' = [start_method EXCEPT ![t] = current_method]
    /\ pc' = [pc EXCEPT ![t] = "done"]
    /\ UNCHANGED <<accessorVars, load_failed, config, auto_fallback, remote_dimension, local_dimension,
                   local_model_instance, init_count, ntexts, e, attempts, outcomes, loaded>>

\* get_current_method()
GetCurrentMethod(t) ==
    /\ pc[t] = "idle"
    /\ ret' = [ret EXCEPT ![t] = Method(current_method)]
    /\ op' = [op EXCEPT ![t] = "get_current_method"]
    /\ start_method' = [start_method EXCEPT ![t] = current_method]
    /\ pc' = [pc EXCEPT ![t] = "done"]
    /\ UNCHANGED <<accessorVars, load_failed, config, clientVars, arg, ntexts, e, attempts, outcomes, loaded>>

\* get_dimension()
GetDimension(t) ==
    /\ pc[t] = "idle"
    /\ ret' = [ret EXCEPT ![t] =
                  Dimension(GetDimensionValue(current_method, remote_dimension,
                                              local_dimension))]
    /\ op' = [op EXCEPT ![t] = "get_dimension"]
    /\ start_method' = [start_method EXCEPT ![t] = current_method]
    /\ pc' = [pc EXCEPT ![t] = "done"]
    /\ UNCHANGED <<accessorVars, load_failed, config, clientVars, arg, ntexts, e, attempts, outcomes, loaded>>

\* the caller takes the result; its frame is gone
Return(t) ==
    /\ pc[t] = "done"
    /\ pc' = [pc EXCEPT ![t] = "idle"]
    /\ op' = [op EXCEPT ![t] = ""]
    /\ arg' = [arg EXCEPT ![t] = ""]
    /\ ntexts' = [ntexts EXCEPT ![t] = 0]
    /\ start_method' = [start_method EXCEPT ![t] = ""]
    /\ e' = [e EXCEPT ![t] = <<>>]
    /\ attempts' = [attempts EXCEPT ![t] = <<>>]
    /\ outcomes' = [outcomes EXCEPT ![t] = <<>>]
    /\ loaded' = [loaded EXCEPT ![t] = FALSE]
    /\ ret' = [ret EXCEPT ![t] = NoRet]
    /\ UNCHANGED <<accessorVars, load_failed, config, clientVars>>

\* no other caller is inside the client: calls are made one after another
Alone(t) == \A u \in Threads \ {t} : pc[u] = "idle"

\* the client used synchronously, as the server's tool layer uses it
Next ==
    \/ \E t \in Threads : Alone(t) /\ CallGenerateEmbedding(t)
    \/ \E t \in Threads : Alone(t) /\ CallGenerateEmbeddingsBatch(t)
    \/ \E t \in Threads : Alone(t) /\ Dispatch(t)
    \/ \E t \in Threads : Alone(t) /\ RemoteCallOk(t)
    \/ \E t \in Threads : Alone(t) /\ RemoteCallFail(t)
    \/ \E t \in Threads : Alone(t) /\ GetLocalModel(t)
    \/ \E t \in Threads : Alone(t) /\ LoadModelOk(t)
    \/ \E t \in Threads : Alone(t) /\ LoadModelFail(t)
    \/ \E t \in Threads : Alone(t) /\ EmbedOk(t)
    \/ \E t \in Threads : Alone(t) /\ EmbedFail(t)
    \/ \E t \in Threads : Alone(t) /\ Fallback(t)
    \/ \E t \in Threads : Alone(t) /\ RaisePrimary(t)
    \/ \E t \in Threads : Alone(t) /\ SwitchMethod(t)
    \/ \E t \in Threads : Alone(t) /\ GetCurrentMethod(t)
    \/ \E t \in Threads : Alone(t) /\ GetDimension(t)
    \/ \E t \in Threads : Alone(t) /\ Return(t)

Spec == Init /\ [][Next]_vars

\* the server's defaults for everything but the embedding method and the
\* fallback flag: the configurations the concurrent and the liveness runs start from
DefaultDeployment(c) ==
    /\ c.openrouter_api_key = "key"
    /\ c.remote_embedding_dimension = ParseInt("3072")
    /\ c.local_embedding_dimension = ParseInt("768")

InitConcurrent == Init /\ DefaultDeployment(config)

\* the synchronous client of a default deployment whose calls keep running:
\* each step of a call is a blocking statement of the calling thread (the HTTP
\* calls carry timeouts, lines 68 and 95), so a step that can be taken is taken
SpecLive == InitConcurrent /\ [][Next]_vars /\ WF_vars(Next)

\* the client shared by callers that run concurrently (the process-wide
\* instance of get_embedding_client under a server that serves requests in
\* parallel); a step is one of the reads and writes of shared state
NextConcurrent ==
    \/ \E t \in Threads : CallGenerateEmbedding(t)
    \/ \E t \in Threads : CallGenerateEmbeddingsBatch(t)
    \/ \E t \in Threads : Dispatch(t)
    \/ \E t \in Threads : RemoteCallOk(t)
    \/ \E t \in Threads : RemoteCallFail(t)
    \/ \E t \in Threads : GetLocalModel(t)
    \/ \E t \in Threads : LoadModelOk(t)
    \/ \E t \in Threads : LoadModelFail(t)
    \/ \E t \in Threads : EmbedOk(t)
    \/ \E t \in Threads : EmbedFail(t)
    \/ \E t \in Threads : Fallback(t)
    \/ \E t \in Threads : RaisePrimary(t)
    \/ \E t \in Threads : SwitchMethod(t)
    \/ \E t \in Threads : GetCurrentMethod(t)
    \/ \E t \in Threads : GetDimension(t)
    \/ \E t \in Threads : Return(t)

SpecConcurrent == InitConcurrent /\ [][NextConcurrent]_vars

(* ------------------------- get_embedding_client ------------------------ *)

\* line 253: no client has been stored yet
NeedsClient(client) == client = None

\* the process after import, before any get_embedding_client() call; the
\* client attributes hold what EmbeddingClient() gives every instance it makes
InitAccessor ==
    /\ InitEmbeddingClient
    /\ embedding_client = None
    /\ clients_constructed = 0
    /\ apc = [t \in Threads |-> "idle"]
    /\ got = [t \in Threads |-> None]

\* line 253: the caller tests the global
AccessorCheck(t) ==
    /\ apc[t] = "idle"
    /\ apc' = [apc EXCEPT ![t] =
                  IF NeedsClient(embedding_client) THEN "construct" ELSE "return"]
    /\ UNCHANGED <<config, clientVars, callVars, load_failed, embedding_client,
                   clients_constructed, got>>

\* line 254: EmbeddingClient() is constructed and stored in the global
AccessorConstruct(t) ==
    /\ apc[t] = "construct"
    /\ clients_constructed' = clients_constructed + 1
    /\ embedding_client' = clients_constructed + 1
    /\ apc' = [apc EXCEPT ![t] = "return"]
    /\ UNCHANGED <<config, clientVars, callVars, load_failed, got>>

\* line 255: the global is read again and returned
AccessorReturn(t) ==
    /\ apc[t] = "return"
    /\ got' = [got EXCEPT ![t] = embedding_client]
    /\ apc' = [apc EXCEPT ![t] = "done"]
    /\ UNCHANGED <<config, clientVars, callVars, load_failed, embedding_client,
                   clients_constructed>>

\* the caller stops using the instance it got
AccessorRelease(t) ==
    /\ apc[t] = "done"
    /\ got' = [got EXCEPT ![t] = None]
    /\ apc' = [apc EXCEPT ![t] = "idle"]
    /\ UNCHANGED <<config, clientVars, callVars, load_failed, embedding_client,
                   clients_constructed>>

\* get_embedding_client() called from request handlers that run concurrently
NextAccessor ==
    \/ \E t \in Threads : AccessorCheck(t)
    \/ \E t \in Threads : AccessorConstruct(t)
    \/ \E t \in Threads : AccessorReturn(t)
    \/ \E t \in Threads : AccessorRelease(t)

SpecAccessor == InitAccessor /\ [][NextAccessor]_vars

(* ------------------------------ properties ---------------------------- *)

\* `part` occurs in `msg` as a run of consecutive tokens
Contains(msg, part) ==
    \E i \in 0..(Len(msg) - Len(part)) : SubSeq(msg, i + 1, i + Len(part)) = part

\* caller t has finished a generate call and still holds its result
Finished(t) == pc[t] = "done" /\ op[t] \in GenerateOps

\* caller t has finished a call whose primary attempt failed
PrimaryFailed(t) == Finished(t) /\ ~outcomes[t][1].ok

\* caller t has finished a call that attempted the remote backend, then the local one
FellBack(t) == Finished(t) /\ attempts[t] = <<"remote", "local">>

\* the step is taken by caller t inside or into a generate call
GenerateStep(t) ==
    /\ pc'[t] # pc[t]
    /\ op[t] \in GenerateOps \/ op'[t] \in GenerateOps

\* the step is caller t's whole switch_method call
SwitchStep(t) == pc[t] = "idle" /\ pc'[t] = "done" /\ op'[t] = "switch_method"

\* C1 as stated: whenever generate_embedding is called with current_method
\* 'remote' and auto_fallback on and its remote attempt fails, the call
\* returns the local backend's vector and current_method is 'local' afterwards.
C1_FallbackAlwaysSucceeds ==
    \A t \in Threads :
        ( /\ PrimaryFailed(t)
          /\ op[t] = "generate_embedding"
          /\ start_method[t] = "remote"
          /\ auto_fallback )
        => /\ ret[t].kind = "vectors"
           /\ ret[t].backend = "local"
           /\ current_method = "local"

\* C1 amended: whenever generate_embedding is called with current_method
\* 'remote' and auto_fallback on and its remote attempt fails, the call makes
\* one local attempt; when that attempt succeeds the call returns the local
\* backend's vector and current_method is 'local' afterwards, which is what a
\* get_current_method() call made next returns.
C1_FallbackSucceedsWhenLocalDoes ==
    /\ \A t \in Threads :
           ( /\ PrimaryFailed(t)
             /\ op[t] = "generate_embedding"
             /\ start_method[t] = "remote"
             /\ auto_fallback )
           => /\ attempts[t] = <<"remote", "local">>
              /\ Len(outcomes[t]) = 2
              /\ outcomes[t][2].ok =>
                    /\ ret[t].kind = "vectors"
                    /\ ret[t].backend = "local"
                    /\ ret[t].count = 1
                    /\ current_method = "local"
    /\ \A t \in Threads :
           (pc[t] = "done" /\ op[t] = "get_current_method")
           => ret[t].kind = "method" /\ ret[t].str = current_method

C1_Witness ==
    \E t \in Threads :
        /\ PrimaryFailed(t)
        /\ op[t] = "generate_embedding"
        /\ start_method[t] = "remote"
        /\ auto_fallback
        /\ outcomes[t][2].ok
        /\ ret[t].backend = "local"

\* C2: a generate call whose primary attempt fails while auto_fallback is off
\* or current_method is 'local' raises an error that carries the primary
\* attempt's cause, makes no second attempt and leaves current_method as it
\* was when the call was made.
C2_NoFallbackFailsWithCause ==
    \A t \in Threads :
        ( /\ PrimaryFailed(t)
          /\ ~auto_fallback \/ start_method[t] = "local" )
        => /\ ret[t].kind = "raised"
           /\ Contains(ret[t].msg, outcomes[t][1].cause)
           /\ ret[t].cause = outcomes[t][1].cause
           /\ Len(attempts[t]) = 1
           /\ Len(outcomes[t]) = 1
           /\ current_method = start_method[t]

C2_Witness ==
    /\ \E t \in Threads :
           /\ PrimaryFailed(t)
           /\ ~auto_fallback
           /\ start_method[t] = "remote"
           /\ attempts[t] = <<"remote">>
           /\ ret[t].kind = "raised"
           /\ current_method = "remote"

\* C3: with auto_fallback on, a generate call (single or batch) whose remote
\* attempt and whose local fallback attempt both fail raises one error whose
\* message contains the remote cause and the local cause.
C3_CombinedErrorHasBothCauses ==
    \A t \in Threads :
        ( /\ FellBack(t)
          /\ Len(outcomes[t]) = 2
          /\ ~outcomes[t][1].ok
          /\ ~outcomes[t][2].ok )
        => /\ auto_fallback
           /\ ret[t].kind = "raised"
           /\ Contains(ret[t].msg, outcomes[t][1].cause)
           /\ Contains(ret[t].msg, outcomes[t][2].cause)

C3_Witness ==
    \E t \in Threads :
        /\ FellBack(t)
        /\ op[t] = "generate_embeddings_batch"
        /\ ~outcomes[t][1].ok
        /\ ~outcomes[t][2].ok
        /\ outcomes[t][2].cause = InitError(<<"No module named 'fastembed'">>)
        /\ ret[t].kind = "raised"

\* C4: a step of a generate call changes current_method from 'remote' to
\* 'local' only when that call's primary attempt went to the remote backend
\* and failed, auto_fallback is on and the call's local fallback attempt
\* succeeded; a call whose fallback attempt failed ends with current_method
\* 'remote', and a call dispatched while current_method is 'remote' attempts
\* the remote backend first.
C4_TransitionOnlyOnSuccessfulFallback ==
    [][ \A t \in Threads :
          /\ (GenerateStep(t) /\ current_method = "remote" /\ current_method' = "local")
             => /\ auto_fallback
                /\ attempts'[t] = <<"remote", "local">>
                /\ Len(outcomes'[t]) = 2
                /\ ~outcomes'[t][1].ok
                /\ outcomes'[t][2].ok
          /\ (FellBack(t)' /\ ~outcomes'[t][2].ok) => current_method' = "remote"
          /\ (pc[t] = "dispatch" /\ pc'[t] # "dispatch" /\ current_method = "remote")
             => attempts'[t] = <<"remote">>
      ]_vars

C4_Witness ==
    \E t \in Threads :
        /\ FellBack(t)
        /\ ~outcomes[t][2].ok
        /\ current_method = "remote"
        /\ start_method[t] = "remote"

\* C5: every step that changes current_method from 'local' to 'remote' is a
\* switch_method('remote') call, and a generate call starts a remote attempt
\* only while current_method is 'remote'; so once a fallback has made
\* current_method 'local', no remote attempt is made until switch_method('remote').
C5_LocalToRemoteOnlyBySwitch ==
    [][ /\ (current_method = "local" /\ current_method' = "remote")
           => \E t \in Threads : SwitchStep(t) /\ arg'[t] = "remote"
        /\ \A t \in Threads :
              ( /\ Len(attempts'[t]) > Len(attempts[t])
                /\ attempts'[t][Len(attempts'[t])] = "remote" )
              => current_method = "remote"
      ]_vars

C5_Witness ==
    \E t \in Threads :
        /\ pc[t] = "done"
        /\ op[t] = "switch_method"
        /\ arg[t] = "remote"
        /\ start_method[t] = "local"
        /\ current_method = "remote"
        /\ config.embedding_method = "remote"
        /\ local_model_instance # None

\* C6: in every reachable state of a client constructed from a configuration
\* the settings loader accepts, current_method is 'remote' or 'local'.
C6_CurrentMethodIsRemoteOrLocal == current_method \in {"remote", "local"}

\* C7: switch_method(m) with m neither 'remote' nor 'local' raises ValueError
\* and leaves current_method and the rest of the client's state unchanged.
C7_InvalidSwitchRejected ==
    [][ \A t \in Threads :
          (SwitchStep(t) /\ arg'[t] \notin {"remote", "local"})
          => /\ ret'[t].kind = "raised"
             /\ ret'[t].type = "ValueError"
             /\ clientVars' = clientVars
             /\ config' = config
      ]_vars

C7_Witness ==
    \E t \in Threads :
        /\ pc[t] = "done"
        /\ op[t] = "switch_method"
        /\ arg[t] \in {"bogus", "Remote"}
        /\ ret[t].type = "ValueError"
        /\ current_method = start_method[t]

\* C8: switch_method(m) with m 'remote' or 'local' makes current_method m
\* and does nothing else: no backend attempt, no construction of the local
\* model, auto_fallback and both dimensions unchanged.
C8_ValidSwitchOnlySetsMethod ==
    [][ \A t \in Threads :
          (SwitchStep(t) /\ arg'[t] \in {"remote", "local"})
          => /\ current_method' = arg'[t]
             /\ ret'[t].kind = "message"
             /\ attempts' = attempts
             /\ outcomes' = outcomes
             /\ loaded' = loaded
             /\ local_model_instance' = local_model_instance
             /\ init_count' = init_count
             /\ auto_fallback' = auto_fallback
             /\ remote_dimension' = remote_dimension
             /\ local_dimension' = local_dimension
      ]_vars

C8_Witness ==
    \E t \in Threads :
        /\ pc[t] = "done"
        /\ op[t] = "switch_method"
        /\ arg[t] = "local"
        /\ start_method[t] = "remote"
        /\ current_method = "local"
        /\ ret[t].kind = "message"

\* C9: when the calls on one client are made one after another, the local
\* model is constructed at most once, and a handle that is present is never
\* replaced or cleared.
C9_ModelConstructedAtMostOnce ==
    [][ /\ init_count' <= 1
        /\ local_model_instance # None => local_model_instance' = local_model_instance
      ]_vars

C9_Witness ==
    \E t \in Threads :
        /\ Finished(t)
        /\ ret[t].backend = "local"
        /\ ~loaded[t]
        /\ init_count = 1
        /\ local_model_instance # None

\* C10: when callers use the local backend of one client concurrently while
\* the handle is absent, the local model is still constructed at most once.
C10_ModelConstructedAtMostOnceConcurrently == init_count <= 1

\* the step is caller t's whole get_dimension call
DimensionStep(t) == pc[t] = "idle" /\ pc'[t] = "done" /\ op'[t] = "get_dimension"

\* C11: get_dimension() returns remote_dimension when current_method is
\* 'remote' and local_dimension otherwise (so the local dimension after a
\* successful fallback), and changes nothing of the client.
C11_DimensionFollowsCurrentMethod ==
    [][ \A t \in Threads :
          DimensionStep(t)
          => /\ ret'[t].kind = "dimension"
             /\ current_method = "remote" => ret'[t].num = remote_dimension
             /\ current_method # "remote" => ret'[t].num = local_dimension
             /\ clientVars' = clientVars
             /\ config' = config
      ]_vars

C11_Witness ==
    \E t \in Threads :
        /\ pc[t] = "done"
        /\ op[t] = "get_dimension"
        /\ config.embedding_method = "remote"
        /\ current_method = "local"
        /\ local_model_instance # None
        /\ remote_dimension # local_dimension
        /\ ret[t].num = local_dimension

\* C12: the vector generate_embedding returns has the length configured for
\* the backend that produced it (remote_dimension for a remote result,
\* local_dimension for a local or fallback result), which is also what
\* get_dimension() returns right after the call.
C12_VectorLengthIsConfiguredDimension ==
    \A t \in Threads :
        (Finished(t) /\ op[t] = "generate_embedding" /\ ret[t].kind = "vectors")
        => /\ ret[t].backend = "remote" => ret[t].len = remote_dimension
           /\ ret[t].backend = "local" => ret[t].len = local_dimension
           /\ ret[t].len = (IF current_method = "remote" THEN remote_dimension
                                                          ELSE local_dimension)

\* the literal parts of the error messages that name the remote backend
NamesRemote == {"Both remote and local embedding failed. Remote: "}
\* the literal parts of the error messages that name the local backend
NamesLocal == {"Both remote and local embedding failed. Remote: ", ", Local: ",
               "Local embedding model initialization failed: "}

\* the message names the backend
NamesBackend(msg, backend) ==
    \E i \in 1..Len(msg) :
        msg[i] \in (IF backend = "remote" THEN NamesRemote ELSE NamesLocal)

\* C13: every error a generate call raises names each backend that failed
\* and contains each failure's cause, for the combined error and for the
\* error raised without fallback alike.
C13_ErrorNamesMethodsAndCauses ==
    \A t \in Threads :
        (Finished(t) /\ ret[t].kind = "raised")
        => \A i \in 1..Len(attempts[t]) :
              /\ NamesBackend(ret[t].msg, attempts[t][i])
              /\ Contains(ret[t].msg, outcomes[t][i].cause)

\* C14: get_embedding_client() constructs at most one EmbeddingClient per
\* process and hands the same instance to every caller, however the first
\* calls interleave.
C14_OneClientPerProcess ==
    /\ clients_constructed <= 1
    /\ \A t, u \in Threads :
          (apc[t] = "done" /\ apc[u] = "done") => got[t] = got[u]

\* the dispatch and fallback policy of section 4.1, as a function of the
\* state a call starts in and of how its backend attempts end
PolicyAttempts(start, fallback, outs) ==
    IF start = "remote"
      THEN IF outs[1].ok \/ ~fallback THEN <<"remote">> ELSE <<"remote", "local">>
      ELSE <<"local">>

PolicyMethod(start, fallback, outs) ==
    IF PolicyAttempts(start, fallback, outs) = <<"remote", "local">> /\ outs[2].ok
      THEN "local"
      ELSE start

PolicySucceeds(outs) == outs[Len(outs)].ok

\* C15: generate_embedding and generate_embeddings_batch follow one policy:
\* from the same current_method and auto_fallback and with the same backend
\* outcomes, a finished call of either kind has made the same attempts, left
\* the same current_method and succeeded or failed alike; a returned batch
\* comes whole from the backend attempted last, and a batch whose primary
\* attempt failed is retried once, in full, on the local backend.
C15_BatchFollowsSinglePolicy ==
    \A t \in Threads :
        Finished(t)
        => /\ attempts[t] = PolicyAttempts(start_method[t], auto_fallback, outcomes[t])
           /\ Len(outcomes[t]) = Len(attempts[t])
           /\ current_method = PolicyMethod(start_method[t], auto_fallback, outcomes[t])
           /\ ret[t].kind = (IF PolicySucceeds(outcomes[t]) THEN "vectors" ELSE "raised")
           /\ ret[t].kind = "vectors"
                 => /\ ret[t].backend = attempts[t][Len(attempts[t])]
                    /\ ret[t].backend = "local" => ret[t].count = ntexts[t]

C15_Witness ==
    \E t \in Threads :
        /\ Finished(t)
        /\ op[t] = "generate_embeddings_batch"
        /\ attempts[t] = <<"remote", "local">>
        /\ outcomes[t][2].ok
        /\ ntexts[t] = 2
        /\ ret[t].count = 2
        /\ current_method = "local"

\* caller t is inside a generate call that has not finished
InCall(t) == pc[t] \notin {"idle", "done"}

\* the attempts caller t's call has made so far are within the budget
AttemptsWithinBudget(t) ==
    /\ attempts[t] \in {<<>>, <<"remote">>, <<"local">>, <<"remote", "local">>}
    /\ Len(outcomes[t]) <= Len(attempts[t])
    /\ Len(attempts[t]) <= Len(outcomes[t]) + 1
    /\ Len(attempts[t]) >= 1 => (attempts[t][1] = "remote" <=> start_method[t] = "remote")
    /\ Len(attempts[t]) = 2 => ~outcomes[t][1].ok

\* C16: every generate call (single or batch) ends, with vectors or an error,
\* after at most two backend attempts: a primary attempt on the backend that
\* matches current_method, then at most one local attempt that starts after
\* the remote attempt has failed; never remote twice, never remote after local.
C16_CallEndsWithinTwoAttempts ==
    /\ [](\A t \in Threads : AttemptsWithinBudget(t))
    /\ \A t \in Threads :
          InCall(t) ~> (pc[t] = "done" /\ ret[t].kind \in {"vectors", "raised"})

C16_Witness ==
    \E t \in Threads :
        /\ Finished(t)
        /\ op[t] = "generate_embeddings_batch"
        /\ attempts[t] = <<"remote", "local">>
        /\ Len(outcomes[t]) = 2
        /\ loaded[t]
        /\ ret[t].kind = "vectors"

\* the messages a failed initialisation of the local model can carry
InitErrors == { InitError(c) : c \in LoadCauses }

\* the step is caller t's failed construction of the local model
LoadFailStep(t) == pc[t] = "load_model" /\ pc'[t] \in {"except", "done"}

\* C17: a failed initialisation of the local model leaves the handle absent
\* and is not remembered: the failing call raises an error that carries the
\* initialisation error, and the next local attempt (direct or fallback)
\* initialises again and, when that succeeds, returns the local vectors.
C17_FailedInitIsRetried ==
    [][ \A t \in Threads :
          /\ LoadFailStep(t)
             => /\ local_model_instance = None
                /\ local_model_instance' = None
                /\ init_count' = init_count
                /\ outcomes'[t][Len(outcomes'[t])].cause \in InitErrors
          /\ (pc[t] = "get_local_model" /\ pc'[t] # pc[t] /\ local_model_instance = None)
             => pc'[t] = "load_model"
          /\ (Finished(t)' /\ outcomes'[t][Len(outcomes'[t])].cause \in InitErrors)
             => /\ ret'[t].kind = "raised"
                /\ Contains(ret'[t].msg, outcomes'[t][Len(outcomes'[t])].cause)
          /\ (Finished(t)' /\ loaded'[t] /\ outcomes'[t][Len(outcomes'[t])].ok)
             => /\ ret'[t].kind = "vectors"
                /\ ret'[t].backend = "local"
      ]_vars

C17_Witness ==
    \E t \in Threads :
        /\ Finished(t)
        /\ load_failed
        /\ loaded[t]
        /\ init_count = 1
        /\ ret[t].kind = "vectors"
        /\ ret[t].backend = "local"

\* the step constructs or replaces the local model handle
HandleChanges == local_model_instance' # local_model_instance \/ init_count' # init_count

\* C18: the local model handle is absent after construction of the client,
\* and every step that creates it is the model load of a generate call whose
\* current attempt is a local one (direct or fallback); remote attempts,
\* switch_method, get_current_method and get_dimension never create it.
C18_HandleCreatedOnlyByLocalAttempt ==
    /\ local_model_instance = None /\ init_count = 0
    /\ [][ /\ HandleChanges
              => \E t \in Threads :
                    /\ op[t] \in GenerateOps
                    /\ pc[t] = "load_model"
                    /\ pc'[t] = "embed"
                    /\ Len(attempts[t]) >= 1
                    /\ attempts[t][Len(attempts[t])] = "local"
           /\ \A t \in Threads :
                 ( \/ op'[t] \in {"switch_method", "get_current_method", "get_dimension"}
                   \/ pc[t] = "remote_call" )
                 /\ pc'[t] # pc[t]
                 => ~HandleChanges
       ]_vars

C18_Witness ==
    \E t \in Threads :
        /\ Finished(t)
        /\ loaded[t]
        /\ local_model_instance = 1
        /\ attempts[t][Len(attempts[t])] = "local"

\* C19: whatever switch_method calls of another caller interleave, a generate
\* call whose primary attempt used the local backend makes no second attempt
\* and never raises the combined error, and a call whose primary attempt used
\* the remote backend and failed with auto_fallback on makes the fallback attempt.
C19_FallbackFollowsOwnPrimaryAttempt ==
    \A t \in Threads :
        Finished(t)
        => /\ attempts[t][1] = "local"
                 => /\ Len(attempts[t]) = 1
                    /\ ~Contains(ret[t].msg,
                                 <<"Both remote and local embedding failed. Remote: ">>)
           /\ (attempts[t][1] = "remote" /\ ~outcomes[t][1].ok /\ auto_fallback)
                 => attempts[t] = <<"remote", "local">>

====
